---- MODULE Spec2Model ----
(***************************************************************************)
(* Order routes of the SportShop backend (src/unnamed/part_000): the       *)
(* Express router over the Order collection.  The store is the Order       *)
(* collection; every request is a handler instance that runs from one      *)
(* `await` to the next as one atomic step (Node runs a handler             *)
(* single-threaded between suspension points, MongoDB executes each        *)
(* findById / findByIdAndUpdate / findByIdAndDelete atomically).           *)
(*                                                                         *)
(* Mongoose semantics the handlers rely on:                                *)
(*   - findById(id) resolves to null when no document has that id;         *)
(*   - findByIdAndUpdate(id, patch) with no options applies the patch and  *)
(*     resolves to the document as it was BEFORE the update, or to null    *)
(*     (nothing written, no upsert) when no document has that id;          *)
(*   - findByIdAndDelete(id) resolves to the removed document or null.     *)
(* Ids are well-formed ObjectIds (no CastError).                           *)
(* The `if (!id)` checks of the handlers are not modelled: the routes are  *)
(* "/:id/...", so Express only dispatches them with a non-empty id.        *)
(***************************************************************************)
EXTENDS Integers, Sequences, FiniteSets, TLC

\* ---------------------------------------------------------------- bounds
MaxOrders == 1
MaxReqs == 2

OrderIds == 1..MaxOrders
Reqs == 1..MaxReqs

\* ------------------------------------------------------------ data model
Statuses == {"Pending", "Completed", "Canceled"}
PaymentStatuses == {"Pending", "Paid", "Canceled"}
\* "Shipping" stands for the carrier states between Pending and Shipped
DeliveryStatuses == {"Pending", "Shipping", "Shipped", "Canceled"}
Shippers == {"S1"}
NoShipper == "none"

\* JavaScript null: what findById resolves to for an unknown id
NULL == [null |-> TRUE]

CodeOf(id) == "O-" \o ToString(id)
EmailOf(id) == "customer" \o ToString(id) \o "@mail"
ManagerOf(id) == "M" \o ToString(id)

\* createdAt, in hours since the day 0 at 00:00 UTC: order i is placed on
\* day i at 20:00 UTC
CreatedAt(id) == id * 24 + 20

\* one populated line item: productId and productVariantId resolved to the
\* documents they refer to (NULL when the reference dangles)
Item(product, variant, price, quantity) ==
  [productId |-> [name |-> product],
   productVariantId |-> [name |-> variant, price |-> price],
   quantity |-> quantity]

\* the part of an order that no route of this router writes
Placed(id) ==
  [code |-> CodeOf(id), email |-> EmailOf(id),
   fullName |-> "Customer " \o ToString(id),
   phone |-> "090" \o ToString(id),
   address |-> "Street " \o ToString(id),
   typePayment |-> "cash",
   managerId |-> ManagerOf(id),
   createdAt |-> CreatedAt(id), updatedAt |-> CreatedAt(id),
   orderTotalPrice |-> 13,
   items |-> <<Item("Shoe", "Size 42", 5, 2), Item("Ball", "Size 5", 3, 1)>>]

OrderDoc(id, st, ps, ds, sh) ==
  [f \in DOMAIN Placed(id) \cup
         {"status", "paymentStatus", "deliveryStatus", "shipperId"} |->
     CASE f = "status" -> st
       [] f = "paymentStatus" -> ps
       [] f = "deliveryStatus" -> ds
       [] f = "shipperId" -> sh
       [] OTHER -> Placed(id)[f]]

Orders ==
  {OrderDoc(i, st, ps, ds, sh) :
     i \in OrderIds, st \in Statuses, ps \in PaymentStatuses,
     ds \in DeliveryStatuses, sh \in Shippers \cup {NoShipper}}

\* The two data-model invariants of an order
Consistent(o) ==
  /\ (o.status = "Canceled") <=>
       (o.paymentStatus = "Canceled" /\ o.deliveryStatus = "Canceled")
  /\ (o.status = "Completed") <=>
       (o.paymentStatus = "Paid" /\ o.deliveryStatus = "Shipped")

VARIABLES
  store,         \* the Order collection: id -> document, or NULL
  pc,            \* where each handler instance stands
  req,           \* the request it serves: route, req.params.id, body value
  order,         \* its local `order` (the document findById resolved to)
  updatedOrder,  \* its local `updatedOrder`
  query,         \* req.user and req.query of a list request
  doc,           \* its PDFDocument: the lines not yet emitted as data
  buffers,       \* its `buffers`: the chunks the "data" listener pushed
  mail,          \* mailOptions handed to transporter.sendMail, or NULL
  statistic,     \* its locals totalCanceled and totalCompleted
  res            \* the response it sent

vars ==
  <<store, pc, req, order, updatedOrder, query, doc, buffers, mail, statistic,
    res>>

NoReq == [op |-> "none", id |-> 0, arg |-> "none"]
NoRes == [status |-> 0, kind |-> "none", body |-> NULL]
NoQuery == [route |-> "none"]
NoStatistic == [totalCanceled |-> 0, totalCompleted |-> 0]

Min(a, b) == IF a <= b THEN a ELSE b

\* ------------------------------------------------------- store primitives
FindById(id) == store[id]

\* findByIdAndUpdate(id, patch): the collection after the update
Patch(document, patch) ==
  [f \in DOMAIN document |->
     IF f \in DOMAIN patch THEN patch[f] ELSE document[f]]

\* variant: the update is an upsert, so it creates the document it misses
FindByIdAndUpdate_Upsert(id, patch) ==
  [store EXCEPT ![id] =
     Patch(IF store[id] = NULL
             THEN OrderDoc(id, "Pending", "Pending", "Pending", NoShipper)
             ELSE store[id],
           patch)]

FindByIdAndUpdate(id, patch) ==
  IF store[id] = NULL THEN store
  ELSE [store EXCEPT ![id] = Patch(store[id], patch)]

FindByIdAndDelete(id) == [store EXCEPT ![id] = NULL]

\* ------------------------------------------------------------- responses
Json(code, document) ==
  [status |-> code, kind |-> "json", body |-> document]
JsonMessage(code, msg) ==
  [status |-> code, kind |-> "json", body |-> [message |-> msg]]
EndText(code, text) ==
  [status |-> code, kind |-> "text", body |-> [text |-> text]]

\* error.message of the TypeError thrown by reading a property of null
NullDeref == "Cannot read properties of null"
CanceledText == "This order was canceled!"
CompletedText == "Can not cancel this order that was completed.!"

Ready(r) == pc[r] \in {"idle", "done"}

\* the handler instance r has sent its response and holds nothing else
Respond(r, response) ==
  /\ res' = [res EXCEPT ![r] = response]
  /\ pc' = [pc EXCEPT ![r] = "done"]
  /\ order' = [order EXCEPT ![r] = NULL]
  /\ updatedOrder' = [updatedOrder EXCEPT ![r] = NULL]

Accept(r, op, id, arg) ==
  /\ Ready(r)
  /\ req' = [req EXCEPT ![r] = [op |-> op, id |-> id, arg |-> arg]]
  /\ query' = [query EXCEPT ![r] = NoQuery]

Init ==
  /\ store \in [OrderIds -> {NULL} \cup
        {o \in Orders : Consistent(o) /\ o.shipperId = NoShipper}]
  /\ \A i \in OrderIds : store[i] # NULL => store[i].code = CodeOf(i)
  /\ pc = [r \in Reqs |-> "idle"]
  /\ req = [r \in Reqs |-> NoReq]
  /\ order = [r \in Reqs |-> NULL]
  /\ updatedOrder = [r \in Reqs |-> NULL]
  /\ query = [r \in Reqs |-> NoQuery]
  /\ doc = [r \in Reqs |-> <<>>]
  /\ buffers = [r \in Reqs |-> <<>>]
  /\ mail = [r \in Reqs |-> NULL]
  /\ statistic = [r \in Reqs |-> NoStatistic]
  /\ res = [r \in Reqs |-> NoRes]

\* the handler goes on past its findById with `order` bound
Proceed(r, found, next) ==
  /\ order' = [order EXCEPT ![r] = found]
  /\ pc' = [pc EXCEPT ![r] = next]
  /\ res' = [res EXCEPT ![r] = NoRes]
  /\ updatedOrder' = [updatedOrder EXCEPT ![r] = NULL]

\* ------------------------------------------------------ POST /:id/pay
WasCanceled(o) == o.status = "Canceled" \/ o.paymentStatus = "Canceled"

PayFind(r) ==
  \E id \in OrderIds :
    /\ Accept(r, "Pay", id, "none")
    /\ UNCHANGED <<store, mail, doc, buffers, statistic>>
    /\ IF FindById(id) = NULL
         THEN Respond(r, JsonMessage(500, NullDeref))
       ELSE IF WasCanceled(FindById(id))
         THEN Respond(r, EndText(500, CanceledText))
       ELSE Proceed(r, FindById(id), "update")

\* PayUpdate without the deliveryStatus test: the order is never completed
PayUpdate_NoCompletion(r) ==
  /\ pc[r] = "update" /\ req[r].op = "Pay"
  /\ store' = FindByIdAndUpdate(req[r].id, [paymentStatus |-> "Paid"])
  /\ UNCHANGED <<req, mail, query, doc, buffers, statistic>>
  /\ Respond(r, Json(200, store[req[r].id]))

PayUpdate(r) ==
  /\ pc[r] = "update" /\ req[r].op = "Pay"
  /\ store' = FindByIdAndUpdate(req[r].id, [paymentStatus |-> "Paid"])
  /\ UNCHANGED <<req, mail, query, doc, buffers, statistic>>
  /\ IF order[r].deliveryStatus = "Shipped"
       THEN /\ updatedOrder' = [updatedOrder EXCEPT ![r] = store[req[r].id]]
            /\ pc' = [pc EXCEPT ![r] = "complete"]
            /\ UNCHANGED <<order, res>>
       ELSE Respond(r, Json(200, store[req[r].id]))

PayComplete(r) ==
  /\ pc[r] = "complete" /\ req[r].op = "Pay"
  /\ store' = FindByIdAndUpdate(req[r].id, [status |-> "Completed"])
  /\ UNCHANGED <<req, mail, query, doc, buffers, statistic>>
  /\ Respond(r, Json(200, updatedOrder[r]))

\* ------------------------------------------------ POST /:id/ship/status
\* ShipStatusFind with a guard that looks at order.status alone
ShipStatusFind_StatusOnly(r) ==
  \E id \in OrderIds, s \in DeliveryStatuses :
    /\ Accept(r, "SetDeliveryStatus", id, s)
    /\ UNCHANGED <<store, mail, doc, buffers, statistic>>
    /\ IF FindById(id) = NULL
         THEN Respond(r, JsonMessage(500, NullDeref))
       ELSE IF FindById(id).status = "Canceled"
         THEN Respond(r, EndText(500, CanceledText))
       ELSE Proceed(r, FindById(id), "update")

ShipStatusFind(r) ==
  \E id \in OrderIds, s \in DeliveryStatuses :
    /\ Accept(r, "SetDeliveryStatus", id, s)
    /\ UNCHANGED <<store, mail, doc, buffers, statistic>>
    /\ IF FindById(id) = NULL
         THEN Respond(r, JsonMessage(500, NullDeref))
       ELSE IF WasCanceled(FindById(id))
         THEN Respond(r, EndText(500, CanceledText))
       ELSE Proceed(r, FindById(id), "update")

\* ShipStatusUpdate that tests the order's status where the code tests its
\* paymentStatus
ShipStatusUpdate_TestsStatus(r) ==
  /\ pc[r] = "update" /\ req[r].op = "SetDeliveryStatus"
  /\ store' = FindByIdAndUpdate(req[r].id, [deliveryStatus |-> req[r].arg])
  /\ UNCHANGED <<req, mail, query, doc, buffers, statistic>>
  /\ IF order[r].status = "Paid"
       THEN /\ updatedOrder' = [updatedOrder EXCEPT ![r] = store[req[r].id]]
            /\ pc' = [pc EXCEPT ![r] = "complete"]
            /\ UNCHANGED <<order, res>>
       ELSE Respond(r, Json(200, store[req[r].id]))

ShipStatusUpdate(r) ==
  /\ pc[r] = "update" /\ req[r].op = "SetDeliveryStatus"
  /\ store' = FindByIdAndUpdate(req[r].id, [deliveryStatus |-> req[r].arg])
  /\ UNCHANGED <<req, mail, query, doc, buffers, statistic>>
  /\ IF order[r].paymentStatus = "Paid"
       THEN /\ updatedOrder' = [updatedOrder EXCEPT ![r] = store[req[r].id]]
            /\ pc' = [pc EXCEPT ![r] = "complete"]
            /\ UNCHANGED <<order, res>>
       ELSE Respond(r, Json(200, store[req[r].id]))

ShipStatusComplete(r) ==
  /\ pc[r] = "complete" /\ req[r].op = "SetDeliveryStatus"
  /\ store' = FindByIdAndUpdate(req[r].id, [status |-> "Completed"])
  /\ UNCHANGED <<req, mail, query, doc, buffers, statistic>>
  /\ Respond(r, Json(200, updatedOrder[r]))

\* ----------------------------------------------------- POST /:id/cancel
\* CancelFind with the guard of the pay and ship routes (Canceled) in the
\* place of its own (Completed)
CancelFind_WrongGuard(r) ==
  \E id \in OrderIds :
    /\ Accept(r, "Cancel", id, "none")
    /\ UNCHANGED <<store, mail, doc, buffers, statistic>>
    /\ IF FindById(id) = NULL
         THEN Respond(r, JsonMessage(500, NullDeref))
       ELSE IF FindById(id).status = "Canceled"
         THEN Respond(r, EndText(500, CompletedText))
       ELSE Proceed(r, FindById(id), "update")

CancelFind(r) ==
  \E id \in OrderIds :
    /\ Accept(r, "Cancel", id, "none")
    /\ UNCHANGED <<store, mail, doc, buffers, statistic>>
    /\ IF FindById(id) = NULL
         THEN Respond(r, JsonMessage(500, NullDeref))
       ELSE IF FindById(id).status = "Completed"
         THEN Respond(r, EndText(500, CompletedText))
       ELSE Proceed(r, FindById(id), "update")

\* CancelUpdate whose patch leaves paymentStatus out
CancelUpdate_NoPaymentStatus(r) ==
  /\ pc[r] = "update" /\ req[r].op = "Cancel"
  /\ store' = FindByIdAndUpdate(req[r].id,
                [status |-> "Canceled", deliveryStatus |-> "Canceled"])
  /\ UNCHANGED <<req, mail, query, doc, buffers, statistic>>
  /\ Respond(r, Json(200, store[req[r].id]))

CancelUpdate(r) ==
  /\ pc[r] = "update" /\ req[r].op = "Cancel"
  /\ store' = FindByIdAndUpdate(req[r].id,
                [status |-> "Canceled", paymentStatus |-> "Canceled",
                 deliveryStatus |-> "Canceled"])
  /\ UNCHANGED <<req, mail, query, doc, buffers, statistic>>
  /\ Respond(r, Json(200, store[req[r].id]))

\* -------------------------------------------------------- PUT /:id/ship
\* variant: the route refuses an order that is canceled or completed
AssignShipper_Guarded(r) ==
  \E id \in OrderIds, s \in Shippers :
    /\ Accept(r, "AssignShipper", id, s)
    /\ UNCHANGED <<mail, doc, buffers, statistic>>
    /\ IF store[id] # NULL /\ store[id].status \in {"Canceled", "Completed"}
         THEN /\ store' = store
              /\ Respond(r, EndText(500, CanceledText))
         ELSE /\ store' = FindByIdAndUpdate(id, [shipperId |-> s])
              /\ Respond(r, Json(200, store[id]))

AssignShipper(r) ==
  \E id \in OrderIds, s \in Shippers :
    /\ Accept(r, "AssignShipper", id, s)
    /\ store' = FindByIdAndUpdate(id, [shipperId |-> s])
    /\ UNCHANGED <<mail, doc, buffers, statistic>>
    /\ Respond(r, Json(200, store[id]))

\* ----------------------------------------------------------- DELETE /:id
Delete(r) ==
  \E id \in OrderIds :
    /\ Accept(r, "Delete", id, "none")
    /\ store' = FindByIdAndDelete(id)
    /\ UNCHANGED <<mail, doc, buffers, statistic>>
    /\ Respond(r, Json(200, store[id]))

\* -------------------------------------------------------------- GET /:id
GetById(r) ==
  \E id \in OrderIds :
    /\ Accept(r, "GetById", id, "none")
    /\ UNCHANGED <<store, mail, doc, buffers, statistic>>
    /\ Respond(r, Json(200, FindById(id)))

\* ------------------------------------------------------ generateInvoice
\* doc.text(`label: ${value}`): one line of the document; the template
\* literal turns the value into a string
Line(label, value) == <<label, value>>

\* JavaScript's quantity * price (both are integers far below 2^53 here, so
\* the double product is exact)
Times(a, b) == a * b

\* the lines of the block of one item, up to the TypeError that reading
\* `.name` of a reference that populated to null throws
ItemBlock(item) ==
  IF item.productId = NULL THEN <<>>
  ELSE IF item.productVariantId = NULL
    THEN <<Line("Product", item.productId.name)>>
  ELSE <<Line("Product", item.productId.name),
         Line("Variant", item.productVariantId.name),
         Line("Quantity", ToString(item.quantity)),
         Line("Price", ToString(item.productVariantId.price)),
         Line("Total",
              ToString(Times(item.quantity, item.productVariantId.price)))>>

ItemThrows(item) == item.productId = NULL \/ item.productVariantId = NULL

\* order.items.forEach: the blocks of the items, ending with the first that
\* throws
RECURSIVE ItemBlocks(_)
ItemBlocks(items) ==
  IF items = <<>> THEN <<>>
  ELSE IF ItemThrows(Head(items)) THEN ItemBlock(Head(items))
  ELSE ItemBlock(Head(items)) \o ItemBlocks(Tail(items))

\* what generateInvoice wrote into doc, and whether it threw before
\* returning it
generateInvoice(o) ==
  IF o = NULL
    THEN [threw |-> TRUE, text |-> <<Line("Invoice", "")>>]
    ELSE [threw |-> \E k \in DOMAIN o.items : ItemThrows(o.items[k]),
          text |->
            <<Line("Invoice", ""),
              Line("Order code", o.code),
              Line("Customer", o.fullName),
              Line("Phone", o.phone),
              Line("Address", o.address),
              Line("Email", o.email),
              Line("Payment method", o.typePayment),
              Line("Payment status", o.status),
              Line("Delivery status", o.deliveryStatus),
              Line("Status", o.status),
              Line("Created at", ToString(o.createdAt)),
              Line("Updated at", ToString(o.updatedAt)),
              Line("Total", ToString(o.orderTotalPrice)),
              Line("Items", "")>> \o ItemBlocks(o.items)]

\* ------------------------------------------------------ the doc stream
\* the most lines one "data" event of the document carries
MaxChunk == 8

\* the next chunk of a stream that still holds `lines`
NextChunk(lines) == SubSeq(lines, 1, Min(MaxChunk, Len(lines)))
AfterChunk(lines) == SubSeq(lines, Min(MaxChunk, Len(lines)) + 1, Len(lines))

\* Buffer.concat(buffers)
RECURSIVE Concat(_)
Concat(chunks) ==
  IF chunks = <<>> THEN <<>> ELSE Head(chunks) \o Concat(Tail(chunks))

Pdf(lines, ended) ==
  [status |-> 200, kind |-> "pdf", body |-> [doc |-> lines, ended |-> ended]]

\* ------------------------------------------------------ GET /:id/invoice
\* variant: the document is piped to res before it is written, so what was
\* written before the throw has been sent
Invoice_PipesBeforeRendering(r) ==
  \E id \in OrderIds :
    /\ Accept(r, "Invoice", id, "none")
    /\ UNCHANGED <<store, mail, buffers, statistic>>
    /\ IF generateInvoice(FindById(id)).threw
         THEN /\ Respond(r, Pdf(generateInvoice(FindById(id)).text, FALSE))
              /\ doc' = doc
         ELSE /\ doc' = [doc EXCEPT ![r] = generateInvoice(FindById(id)).text]
              /\ res' = [res EXCEPT ![r] = Pdf(<<>>, FALSE)]
              /\ pc' = [pc EXCEPT ![r] = "pipe"]
              /\ UNCHANGED <<order, updatedOrder>>

\* findById, generateInvoice, the headers, doc.pipe(res), doc.end()
Invoice(r) ==
  \E id \in OrderIds :
    /\ Accept(r, "Invoice", id, "none")
    /\ UNCHANGED <<store, mail, buffers, statistic>>
    /\ IF generateInvoice(FindById(id)).threw
         THEN /\ Respond(r, JsonMessage(500, NullDeref))
              /\ doc' = doc
         ELSE /\ doc' = [doc EXCEPT ![r] = generateInvoice(FindById(id)).text]
              /\ res' = [res EXCEPT ![r] = Pdf(<<>>, FALSE)]
              /\ pc' = [pc EXCEPT ![r] = "pipe"]
              /\ UNCHANGED <<order, updatedOrder>>

\* a "data" event of the piped document: the chunk is written to res
InvoicePipe(r) ==
  /\ pc[r] = "pipe" /\ req[r].op = "Invoice" /\ doc[r] # <<>>
  /\ res' = [res EXCEPT ![r] =
       Pdf(res[r].body.doc \o NextChunk(doc[r]), FALSE)]
  /\ doc' = [doc EXCEPT ![r] = AfterChunk(doc[r])]
  /\ UNCHANGED <<store, pc, req, order, updatedOrder, query, buffers, mail,
               statistic>>

\* its "end" event: the pipe ends res
InvoiceEnd(r) ==
  /\ pc[r] = "pipe" /\ req[r].op = "Invoice" /\ doc[r] = <<>>
  /\ res' = [res EXCEPT ![r] = Pdf(res[r].body.doc, TRUE)]
  /\ pc' = [pc EXCEPT ![r] = "done"]
  /\ UNCHANGED <<store, req, order, updatedOrder, query, doc, buffers, mail,
               statistic>>

\* ------------------------------------------- GET /:id/invoice/send-email
\* findById, generateInvoice, the two listeners, doc.end()
SendEmailFind(r) ==
  \E id \in OrderIds :
    /\ Accept(r, "SendEmail", id, "none")
    /\ UNCHANGED <<store, mail, buffers, statistic>>
    /\ IF generateInvoice(FindById(id)).threw
         THEN /\ Respond(r, JsonMessage(500, NullDeref))
              /\ doc' = doc
         ELSE /\ doc' = [doc EXCEPT ![r] = generateInvoice(FindById(id)).text]
              /\ Proceed(r, FindById(id), "stream")

\* a "data" event: buffers.push(chunk)
SendEmailData(r) ==
  /\ pc[r] = "stream" /\ req[r].op = "SendEmail" /\ doc[r] # <<>>
  /\ buffers' = [buffers EXCEPT ![r] = Append(buffers[r], NextChunk(doc[r]))]
  /\ doc' = [doc EXCEPT ![r] = AfterChunk(doc[r])]
  /\ UNCHANGED <<store, pc, req, order, updatedOrder, query, mail, res,
               statistic>>

\* variant: the relay is called while the stream still holds lines
SendEmailEnd_BeforeEnd(r) ==
  /\ pc[r] = "stream" /\ req[r].op = "SendEmail"
  /\ mail' = [mail EXCEPT ![r] =
       [to |-> order[r].email, subject |-> "Invoice",
        content |-> Concat(buffers[r]), calls |-> 1]]
  /\ pc' = [pc EXCEPT ![r] = "mail"]
  /\ UNCHANGED <<store, req, order, updatedOrder, res, query, doc, buffers,
               statistic>>

\* the "end" event: the chunks are concatenated and sendMail is called
SendEmailEnd(r) ==
  /\ pc[r] = "stream" /\ req[r].op = "SendEmail" /\ doc[r] = <<>>
  /\ mail' = [mail EXCEPT ![r] =
       [to |-> order[r].email, subject |-> "Invoice",
        content |-> Concat(buffers[r]), calls |-> 1]]
  /\ pc' = [pc EXCEPT ![r] = "mail"]
  /\ UNCHANGED <<store, req, order, updatedOrder, res, query, doc, buffers,
               statistic>>

\* the errors sendMail may hand to its callback
TransportErrors == {[message |-> "Invalid login", code |-> "EAUTH"]}

\* res.json serialises an Error by its own enumerable properties: the code
\* nodemailer attached, not the message
ToJson(error) == "{code: " \o error.code \o "}"

\* variant: on an error the message is handed to the relay a second time
SendEmailCallback_Retries(r) ==
  /\ pc[r] = "mail" /\ req[r].op = "SendEmail"
  /\ UNCHANGED <<store, req, query, doc, statistic>>
  /\ \E error \in TransportErrors \cup {NULL} :
       IF error # NULL /\ mail[r].calls < 2
         THEN /\ mail' = [mail EXCEPT ![r].calls = 2]
              /\ UNCHANGED <<pc, order, updatedOrder, buffers, res>>
         ELSE /\ mail' = [mail EXCEPT ![r] = NULL]
              /\ buffers' = [buffers EXCEPT ![r] = <<>>]
              /\ IF error # NULL
                   THEN Respond(r, JsonMessage(500, ToJson(error)))
                   ELSE Respond(r, JsonMessage(200, "Email sent successfully."))

\* sendMail's callback
SendEmailCallback(r) ==
  /\ pc[r] = "mail" /\ req[r].op = "SendEmail"
  /\ mail' = [mail EXCEPT ![r] = NULL]
  /\ buffers' = [buffers EXCEPT ![r] = <<>>]
  /\ UNCHANGED <<store, req, query, doc, statistic>>
  /\ \E error \in TransportErrors \cup {NULL} :
       IF error # NULL
         THEN Respond(r, JsonMessage(500, ToJson(error)))
         ELSE Respond(r, JsonMessage(200, "Email sent successfully."))

\* ------------------------------------------------------------- GET /
Roles == {"admin", "staff", "shipper"}
UserIds == {ManagerOf(i) : i \in OrderIds} \cup Shippers \cup {"U0"}
Users == [role : Roles, id : UserIds]

\* the characters of the three fields the q filter searches
CodeText(id) == <<"O", "-", ToString(id)>>
PhoneText(id) == <<"0", "9", "0", ToString(id)>>
FullNameText(id) == <<"C", "u", "s", "t", "o", "m", "e", "r", " ", ToString(id)>>

RECURSIVE Join(_)
Join(chars) == IF chars = <<>> THEN "" ELSE Head(chars) \o Join(Tail(chars))

Text(string) ==
  CHOOSE chars \in UNION {{CodeText(i), PhoneText(i), FullNameText(i)} :
                            i \in OrderIds} : Join(chars) = string

Lower(c) == IF c = "O" THEN "o" ELSE IF c = "C" THEN "c" ELSE c

\* {$regex: pattern, $options: "i"}: the pattern occurs somewhere in the
\* text, letters compared without case, "." standing for any character
RegexTest(pattern, chars) ==
  \E start \in 0..(Len(chars) - Len(pattern)) :
    \A k \in 1..Len(pattern) :
      pattern[k] = "." \/ Lower(pattern[k]) = Lower(chars[start + k])

\* new Date(from), in hours: a date string is read as 00:00 UTC of its day
FormDay(from) == from * 24

\* the day after `to`, seven hours earlier: setDate(getDate() + 1) adds 24
\* hours and setHours(getHours() - 7) takes 7 hours off, in any time zone
ToDay(to) == to * 24 + 24 - 7

\* the values the list requests draw their query string from ("" and 0 stand
\* for a parameter that is not given)
Patterns == {<<>>, <<"c", ".", "s">>, <<"-", "2">>}
StatusFilters == {"", "all", "Pending", "Completed"}
DayFilters == {0, 1, 2}
Pages == {1, 2}
Limits == {1, 10}
SortOrders == {"desc", "asc"}

Merge(f, g) == [k \in DOMAIN f \cup DOMAIN g |->
                  IF k \in DOMAIN g THEN g[k] ELSE f[k]]
Empty == [k \in {} |-> 0]
Only(k, v) == [x \in {k} |-> v]

\* searchQuery without its role terms
SearchQuery_NoRoleTerms(qr) ==
  Merge(Merge(IF qr.q # <<>> THEN Only("$or", qr.q) ELSE Empty,
              IF qr.status # "all" /\ qr.status # ""
                THEN Only("status", qr.status) ELSE Empty),
        IF qr.from # 0 \/ qr.to # 0
          THEN Only("createdAt",
                 Merge(IF qr.from # 0 THEN Only("$gte", FormDay(qr.from))
                                      ELSE Empty,
                       IF qr.to # 0 THEN Only("$lte", ToDay(qr.to))
                                    ELSE Empty))
          ELSE Empty)

\* searchQuery: each spread adds its keys, a later one overriding an earlier
SearchQuery(qr) ==
  Merge(Merge(Merge(Merge(
    IF qr.q # <<>> THEN Only("$or", qr.q) ELSE Empty,
    IF qr.status # "all" /\ qr.status # ""
      THEN Only("status", qr.status) ELSE Empty),
    IF qr.from # 0 \/ qr.to # 0
      THEN Only("createdAt",
             Merge(IF qr.from # 0 THEN Only("$gte", FormDay(qr.from))
                                  ELSE Empty,
                   IF qr.to # 0 THEN Only("$lte", ToDay(qr.to)) ELSE Empty))
      ELSE Empty),
    IF qr.user.role = "staff" THEN Only("managerId", qr.user.id) ELSE Empty),
    IF qr.user.role = "shipper" THEN Only("shipperId", qr.user.id) ELSE Empty)

\* the options object of GET /all: the role terms alone
AllOptions(qr) ==
  Merge(IF qr.user.role = "staff" THEN Only("managerId", qr.user.id)
                                  ELSE Empty,
        IF qr.user.role = "shipper" THEN Only("shipperId", qr.user.id)
                                    ELSE Empty)

\* the document o satisfies the MongoDB filter
Matches(o, filter) ==
  \A k \in DOMAIN filter :
    CASE k = "$or" ->
           \/ RegexTest(filter[k], Text(o.code))
           \/ RegexTest(filter[k], Text(o.phone))
           \/ RegexTest(filter[k], Text(o.fullName))
      [] k = "createdAt" ->
           /\ "$gte" \in DOMAIN filter[k] => o.createdAt >= filter[k]["$gte"]
           /\ "$lte" \in DOMAIN filter[k] => o.createdAt <= filter[k]["$lte"]
      [] OTHER -> o[k] = filter[k]

Find(filter) ==
  {store[i] : i \in {j \in OrderIds : store[j] # NULL /\ Matches(store[j], filter)}}

\* the documents of a set in the order of sort: {createdAt: -1 or 1}
RECURSIVE Sorted(_, _)
Sorted(docs, sortOrder) ==
  IF docs = {} THEN <<>>
  ELSE LET first == CHOOSE d \in docs :
                      \A e \in docs :
                        IF sortOrder = "desc" THEN d.createdAt >= e.createdAt
                                              ELSE d.createdAt <= e.createdAt
       IN <<first>> \o Sorted(docs \ {first}, sortOrder)

\* Order.paginate(searchQuery, options)
Paginate(filter, page, limit, sortOrder) ==
  LET sorted == Sorted(Find(filter), sortOrder)
  IN [docs |-> SubSeq(sorted, (page - 1) * limit + 1,
                      Min(page * limit, Len(sorted))),
      totalDocs |-> Len(sorted), page |-> page, limit |-> limit]

List(r) ==
  \E u \in Users, q \in Patterns, status \in StatusFilters,
     from \in DayFilters, to \in DayFilters,
     page \in Pages, limit \in Limits, sortOrder \in SortOrders :
    LET qr == [route |-> "list", user |-> u, q |-> q, status |-> status,
               from |-> from, to |-> to, page |-> page, limit |-> limit,
               sortOrder |-> sortOrder]
    IN /\ Ready(r)
       /\ req' = [req EXCEPT ![r] = [op |-> "List", id |-> 0, arg |-> "none"]]
       /\ query' = [query EXCEPT ![r] = qr]
       /\ UNCHANGED <<store, mail, doc, buffers, statistic>>
       /\ Respond(r, Json(200, Paginate(SearchQuery(qr), page, limit, sortOrder)))

\* ---------------------------------------------------------- GET /all
ListAll(r) ==
  \E u \in Users :
    LET qr == [route |-> "all", user |-> u]
    IN /\ Ready(r)
       /\ req' = [req EXCEPT ![r] = [op |-> "All", id |-> 0, arg |-> "none"]]
       /\ query' = [query EXCEPT ![r] = qr]
       /\ UNCHANGED <<store, mail, doc, buffers, statistic>>
       /\ Respond(r, Json(200, [docs |-> Sorted(Find(AllOptions(qr)), "asc")]))

\* -------------------------------------------------------- GET /statistic
\* Order.countDocuments(filter): the number of stored orders that match
CountDocuments(filter) ==
  Cardinality({i \in OrderIds : store[i] # NULL /\ Matches(store[i], filter)})

\* the first query: the orders whose status is Canceled
StatisticCanceled(r) ==
  /\ Ready(r)
  /\ req' = [req EXCEPT ![r] = [op |-> "Statistic", id |-> 0, arg |-> "none"]]
  /\ query' = [query EXCEPT ![r] = NoQuery]
  /\ statistic' = [statistic EXCEPT ![r] =
       [totalCanceled |-> CountDocuments(Only("status", "Canceled")),
        totalCompleted |-> 0]]
  /\ Proceed(r, NULL, "countCompleted")
  /\ UNCHANGED <<store, mail, doc, buffers>>

\* the second query: the orders whose status is Completed
StatisticCompleted(r) ==
  /\ pc[r] = "countCompleted" /\ req[r].op = "Statistic"
  /\ statistic' = [statistic EXCEPT ![r].totalCompleted =
       CountDocuments(Only("status", "Completed"))]
  /\ pc' = [pc EXCEPT ![r] = "countTotal"]
  /\ UNCHANGED <<store, req, order, updatedOrder, query, doc, buffers, mail,
                 res>>

\* the third query, all orders, and the response
StatisticTotal(r) ==
  /\ pc[r] = "countTotal" /\ req[r].op = "Statistic"
  /\ statistic' = [statistic EXCEPT ![r] = NoStatistic]
  /\ UNCHANGED <<store, req, query, doc, buffers, mail>>
  /\ Respond(r, Json(200,
       [totalCanceled |-> statistic[r].totalCanceled,
        totalCompleted |-> statistic[r].totalCompleted,
        total |-> CountDocuments(Empty)]))

\* ------------------------------------------------------- specifications
\* the routes that name one order by id; the two list routes are run under
\* QuerySpec, the invoice routes, over a varied catalog, under InvoiceSpec,
\* and the statistic route under StatisticSpec
Handler(r) ==
  \/ PayFind(r) \/ PayUpdate(r) \/ PayComplete(r)
  \/ ShipStatusFind(r) \/ ShipStatusUpdate(r) \/ ShipStatusComplete(r)
  \/ CancelFind(r) \/ CancelUpdate(r)
  \/ AssignShipper(r)
  \/ Delete(r)
  \/ GetById(r)
  \/ Invoice(r) \/ InvoicePipe(r) \/ InvoiceEnd(r)
  \/ SendEmailFind(r) \/ SendEmailData(r) \/ SendEmailEnd(r)
  \/ SendEmailCallback(r)

\* concurrent requests: the handlers interleave at their awaits
Next == \E r \in Reqs : Handler(r)

Spec == Init /\ [][Next]_vars

\* one request after the other: a single handler instance serves them all,
\* each to its end before the next is accepted
SeqNext == Handler(1)

SeqSpec == Init /\ [][SeqNext]_vars

\* the two list routes, against any collection: each reads it in one query
QueryInit ==
  /\ store \in [OrderIds -> {NULL} \cup
        {o \in Orders :
           <<o.status, o.paymentStatus, o.deliveryStatus>> \in
             {<<"Pending", "Pending", "Pending">>,
              <<"Completed", "Paid", "Shipped">>,
              <<"Canceled", "Canceled", "Canceled">>}}]
  /\ \A i \in OrderIds : store[i] # NULL => store[i].code = CodeOf(i)
  /\ pc = [r \in Reqs |-> "idle"]
  /\ req = [r \in Reqs |-> NoReq]
  /\ order = [r \in Reqs |-> NULL]
  /\ updatedOrder = [r \in Reqs |-> NULL]
  /\ query = [r \in Reqs |-> NoQuery]
  /\ doc = [r \in Reqs |-> <<>>]
  /\ buffers = [r \in Reqs |-> <<>>]
  /\ mail = [r \in Reqs |-> NULL]
  /\ statistic = [r \in Reqs |-> NoStatistic]
  /\ res = [r \in Reqs |-> NoRes]

\* one list request per behaviour: its answer depends on nothing but the
\* collection and the request
FirstList == pc[1] = "idle" /\ List(1)
FirstListAll == pc[1] = "idle" /\ ListAll(1)

QueryNext == FirstList \/ FirstListAll

QuerySpec == QueryInit /\ [][QueryNext]_vars

\* the invoice routes, over the catalog as it may be when the invoice is
\* asked for. An item refers to its product and variant by id; populate
\* resolves the reference to the catalog's document of that moment, or to null
\* when the document is gone. The order's stored total is the sum of its
\* line totals at the prices of the moment it was placed.
MaxItems == 2
Prices == {5, 7}
Quantities == {1, 2}

\* the populated product and variant an item may resolve to
Products == {NULL, [name |-> "Shoe"]}
Variants == {NULL} \cup {[name |-> "Size 42", price |-> p] : p \in Prices}

\* an item now, with the price its variant had at placement
Ordered ==
  [productId : Products, productVariantId : Variants,
   quantity : Quantities, placedPrice : Prices]

RECURSIVE PlacedTotal(_)
PlacedTotal(ordered) ==
  IF ordered = <<>> THEN 0
  ELSE Head(ordered).quantity * Head(ordered).placedPrice +
       PlacedTotal(Tail(ordered))

Populated(ordered) ==
  [k \in DOMAIN ordered |->
     [quantity |-> ordered[k].quantity,
      productId |-> ordered[k].productId,
      productVariantId |-> ordered[k].productVariantId]]

InvoiceOrder(ordered) ==
  [OrderDoc(1, "Pending", "Pending", "Pending", NoShipper) EXCEPT
     !.items = Populated(ordered),
     !.orderTotalPrice = PlacedTotal(ordered)]

InvoiceInit ==
  /\ \/ store = [i \in OrderIds |-> NULL]
     \/ \E n \in 0..MaxItems : \E ordered \in [1..n -> Ordered] :
          store = [i \in OrderIds |->
                     IF i = 1 THEN InvoiceOrder(ordered) ELSE NULL]
  /\ pc = [r \in Reqs |-> "idle"]
  /\ req = [r \in Reqs |-> NoReq]
  /\ order = [r \in Reqs |-> NULL]
  /\ updatedOrder = [r \in Reqs |-> NULL]
  /\ query = [r \in Reqs |-> NoQuery]
  /\ doc = [r \in Reqs |-> <<>>]
  /\ buffers = [r \in Reqs |-> <<>>]
  /\ mail = [r \in Reqs |-> NULL]
  /\ statistic = [r \in Reqs |-> NoStatistic]
  /\ res = [r \in Reqs |-> NoRes]

InvoiceNext ==
  \/ Invoice(1) \/ InvoicePipe(1) \/ InvoiceEnd(1)
  \/ SendEmailFind(1) \/ SendEmailData(1) \/ SendEmailEnd(1)
  \/ SendEmailCallback(1)

InvoiceSpec == InvoiceInit /\ [][InvoiceNext]_vars

\* a statistic request of instance 1 while instance 2 serves Pay,
\* SetDeliveryStatus, Cancel and Delete requests
StatisticNext ==
  \/ StatisticCanceled(1) \/ StatisticCompleted(1) \/ StatisticTotal(1)
  \/ PayFind(2) \/ PayUpdate(2) \/ PayComplete(2)
  \/ ShipStatusFind(2) \/ ShipStatusUpdate(2) \/ ShipStatusComplete(2)
  \/ CancelFind(2) \/ CancelUpdate(2)
  \/ Delete(2)

StatisticSpec == Init /\ [][StatisticNext]_vars

\* ---------------------------------------------------------- vocabulary
Present(i) == store[i] # NULL

IsSuccess(response) == response.status = 200
IsError(response) == response.status >= 400

\* handler instance r took this step
Acted(r) ==
  <<pc[r], req[r], order[r], updatedOrder[r], query[r], doc[r], buffers[r],
    mail[r], statistic[r], res[r]>>' #
  <<pc[r], req[r], order[r], updatedOrder[r], query[r], doc[r], buffers[r],
    mail[r], statistic[r], res[r]>>

\* this step is the first of a request of r on route op: it runs the handler
\* up to its first suspension, against the store as it is now
Starts(r, op) == Acted(r) /\ Ready(r) /\ req'[r].op = op

\* this step is the last of a request of r on route op that got past its guard
Finishes(r, op) ==
  Acted(r) /\ ~Ready(r) /\ req[r].op = op /\ pc'[r] = "done"

Mutations == {"Pay", "SetDeliveryStatus", "Cancel", "AssignShipper"}

NotCanceled(o) == o.status # "Canceled" /\ o.paymentStatus # "Canceled"

AllCanceled(o) ==
  o.status = "Canceled" /\ o.paymentStatus = "Canceled" /\
  o.deliveryStatus = "Canceled"

\* ------------------------------------------------------------------ C1
\* C1: between requests, every stored order has status = Completed if and
\* only if paymentStatus = Paid and deliveryStatus = Shipped.
C1_CompletedIffPaidAndShipped ==
  (\A r \in Reqs : Ready(r)) =>
    \A i \in OrderIds :
      Present(i) =>
        ((store[i].status = "Completed") <=>
           (store[i].paymentStatus = "Paid" /\
            store[i].deliveryStatus = "Shipped"))

\* ------------------------------------------------------------------ C2
\* C2: when requests are served one after the other, every stored order
\* has status = Canceled if and only if both paymentStatus = Canceled and
\* deliveryStatus = Canceled.
C2_CanceledIffBothCanceled ==
  \A i \in OrderIds :
    Present(i) =>
      ((store[i].status = "Canceled") <=>
         (store[i].paymentStatus = "Canceled" /\
          store[i].deliveryStatus = "Canceled"))

\* a SetDeliveryStatus(Canceled) request succeeded on an order that is not
\* canceled, and the order still is not canceled as a whole
C2_Witness ==
  \E r \in Reqs :
    /\ pc[r] = "done" /\ req[r].op = "SetDeliveryStatus"
    /\ req[r].arg = "Canceled" /\ IsSuccess(res[r])
    /\ Present(req[r].id)
    /\ store[req[r].id].deliveryStatus = "Canceled"
    /\ store[req[r].id].status # "Canceled"

\* ------------------------------------------------------------------ C3
\* C3: a Cancel request on an order whose status is Completed is rejected
\* and leaves the store as it is; on an order with any other status it
\* succeeds, and the one step that writes sets status, paymentStatus and
\* deliveryStatus to Canceled together (every other step of the request
\* leaves the store as it is).
C3_CancelRejectedOrAllCanceled ==
  [][\A r \in Reqs :
       /\ Starts(r, "Cancel") /\ Present(req'[r].id) =>
            /\ store' = store
            /\ IF store[req'[r].id].status = "Completed"
                 THEN pc'[r] = "done" /\ IsError(res'[r])
                 ELSE pc'[r] = "update" /\ order'[r] = store[req'[r].id]
       /\ Finishes(r, "Cancel") =>
            /\ IsSuccess(res'[r])
            /\ Present(req[r].id)
            /\ store' = [store EXCEPT ![req[r].id] =
                 [store[req[r].id] EXCEPT !.status = "Canceled",
                                          !.paymentStatus = "Canceled",
                                          !.deliveryStatus = "Canceled"]]
    ]_vars

\* a Cancel request on an order that was not canceled before has succeeded
C3_Witness ==
  \E r \in Reqs :
    /\ pc[r] = "done" /\ req[r].op = "Cancel" /\ IsSuccess(res[r])
    /\ res[r].body # NULL /\ ~AllCanceled(res[r].body)
    /\ res[r].body.status = "Pending"
    /\ Present(req[r].id) /\ AllCanceled(store[req[r].id])

\* ------------------------------------------------------------------ C4
\* C4: a Pay or SetDeliveryStatus request on an order whose status is
\* Canceled or whose paymentStatus is Canceled ends at once in an error
\* response, and the store (every field of every order) is unchanged.
C4_CanceledOrderRejects ==
  [][\A r \in Reqs :
       /\ Starts(r, "Pay") \/ Starts(r, "SetDeliveryStatus")
       /\ Present(req'[r].id)
       /\ \/ store[req'[r].id].status = "Canceled"
          \/ store[req'[r].id].paymentStatus = "Canceled"
       => /\ pc'[r] = "done"
          /\ IsError(res'[r])
          /\ store' = store
    ]_vars

\* a SetDeliveryStatus request was rejected on an order whose paymentStatus
\* alone is Canceled
C4_Witness ==
  \E r \in Reqs :
    /\ pc[r] = "done" /\ req[r].op = "SetDeliveryStatus"
    /\ res[r] = EndText(500, CanceledText)
    /\ Present(req[r].id)
    /\ store[req[r].id].paymentStatus = "Canceled"
    /\ store[req[r].id].status = "Pending"

\* ------------------------------------------------------------------ C5
\* C5: under concurrent requests, an order whose stored status is Completed
\* never gets the status Canceled afterwards (Completed can only be left
\* for Canceled, so one step tells).
C5_CompletedNeverCanceled ==
  [][\A i \in OrderIds :
       Present(i) /\ store[i].status = "Completed" /\ store'[i] # NULL
         => store'[i].status # "Canceled"]_vars

\* ------------------------------------------------------------------ C6
\* C6: under concurrent requests, once the stored status is Canceled no
\* write moves status, paymentStatus or deliveryStatus away from Canceled.
C6_CancellationSticks ==
  [][\A i \in OrderIds :
       Present(i) /\ store[i].status = "Canceled" /\ store'[i] # NULL
         => /\ store'[i].status = "Canceled"
            /\ store[i].paymentStatus = "Canceled"
                 => store'[i].paymentStatus = "Canceled"
            /\ store[i].deliveryStatus = "Canceled"
                 => store'[i].deliveryStatus = "Canceled"]_vars

\* ------------------------------------------------------------------ C7
\* C7: a Pay request on an order that is not canceled is accepted, and when
\* it ends the stored order is the order it found with paymentStatus = Paid
\* and with status = Completed if deliveryStatus was Shipped, status as it
\* was otherwise; deliveryStatus (and every other field) is as it was.
PayResult(o) ==
  [o EXCEPT !.paymentStatus = "Paid",
            !.status = IF o.deliveryStatus = "Shipped"
                         THEN "Completed" ELSE o.status]

C7_PaySetsPaid ==
  [][\A r \in Reqs :
       /\ Starts(r, "Pay") /\ Present(req'[r].id)
          /\ NotCanceled(store[req'[r].id])
          => /\ pc'[r] = "update"
             /\ order'[r] = store[req'[r].id]
             /\ store' = store
       /\ Finishes(r, "Pay") =>
            /\ IsSuccess(res'[r])
            /\ store' = [store EXCEPT ![req[r].id] = PayResult(order[r])]
    ]_vars

\* Pay has ended on an order that had all three statuses Pending: it is
\* Paid now and its status is still Pending
C7_Witness ==
  \E r \in Reqs :
    /\ pc[r] = "done" /\ req[r].op = "Pay" /\ IsSuccess(res[r])
    /\ res[r].body # NULL
    /\ res[r].body.status = "Pending"
    /\ res[r].body.paymentStatus = "Pending"
    /\ res[r].body.deliveryStatus = "Pending"
    /\ store[req[r].id] =
         [res[r].body EXCEPT !.paymentStatus = "Paid"]

\* ------------------------------------------------------------------ C8
\* C8: a SetDeliveryStatus(s) request on an order that is not canceled is
\* accepted, and when it ends the stored order has deliveryStatus = s, the
\* paymentStatus it had, and status = Completed if paymentStatus is Paid.
C8_SetDeliveryStatus ==
  [][\A r \in Reqs :
       /\ Starts(r, "SetDeliveryStatus") /\ Present(req'[r].id)
          /\ NotCanceled(store[req'[r].id])
          => /\ pc'[r] = "update"
             /\ order'[r] = store[req'[r].id]
             /\ store' = store
       /\ Finishes(r, "SetDeliveryStatus") =>
            /\ IsSuccess(res'[r])
            /\ Present(req[r].id) /\ store'[req[r].id] # NULL
            /\ store'[req[r].id].deliveryStatus = req[r].arg
            /\ store'[req[r].id].paymentStatus = order[r].paymentStatus
            /\ order[r].paymentStatus = "Paid"
                 => store'[req[r].id].status = "Completed"
    ]_vars

\* SetDeliveryStatus(Shipped) has ended on a Pending order that was paid:
\* the order is Completed
C8_Witness ==
  \E r \in Reqs :
    /\ pc[r] = "done" /\ req[r].op = "SetDeliveryStatus"
    /\ req[r].arg = "Shipped" /\ IsSuccess(res[r])
    /\ res[r].body # NULL
    /\ res[r].body.status = "Pending"
    /\ res[r].body.paymentStatus = "Paid"
    /\ res[r].body.deliveryStatus = "Pending"
    /\ store[req[r].id] =
         [res[r].body EXCEPT !.deliveryStatus = "Shipped",
                             !.status = "Completed"]

\* ------------------------------------------------------------------ C9
\* C9: the body of every successful response to a Pay, SetDeliveryStatus,
\* Cancel or AssignShipper request is the order as it is stored once the
\* request has made all its writes.
C9_RespondsWithUpdatedOrder ==
  \A r \in Reqs :
    pc[r] = "done" /\ req[r].op \in Mutations /\ IsSuccess(res[r])
      => res[r].body = store[req[r].id]

\* ----------------------------------------------------------------- C10
\* C10: a request for an id that no stored order has (on any of the by-id
\* routes) ends at once in an error response that reports the order was not
\* found, never in a success response, and leaves the store unchanged.
ByIdRoutes ==
  Mutations \cup {"Delete", "GetById", "Invoice", "SendEmail"}

\* no handler sends any other not-found report than this status
ReportsNotFound(response) == response.status = 404

C10_UnknownIdReportsNotFound ==
  [][\A r \in Reqs :
       /\ \E op \in ByIdRoutes : Starts(r, op)
       /\ ~Present(req'[r].id)
       => /\ pc'[r] = "done"
          /\ IsError(res'[r])
          /\ ReportsNotFound(res'[r])
          /\ store' = store
    ]_vars

\* ----------------------------------------------------------------- C11
\* C11: a request rejected by a business guard (Pay or SetDeliveryStatus on
\* a canceled order, Cancel on a completed order) is answered with a
\* client-error status (4xx) and a readable reason, which sets it apart from
\* the server-fault answer (500) given to unexpected errors.
IsClientError(response) == response.status \in 400..499

GuardRejects(op, o) ==
  \/ op \in {"Pay", "SetDeliveryStatus"} /\
       (o.status = "Canceled" \/ o.paymentStatus = "Canceled")
  \/ op = "Cancel" /\ o.status = "Completed"

C11_RejectionIsClientError ==
  [][\A r \in Reqs :
       /\ \E op \in {"Pay", "SetDeliveryStatus", "Cancel"} : Starts(r, op)
       /\ Present(req'[r].id)
       /\ GuardRejects(req'[r].op, store[req'[r].id])
       => /\ pc'[r] = "done"
          /\ IsClientError(res'[r])
          /\ res'[r].kind = "text"
    ]_vars

\* ----------------------------------------------------------------- C12
\* C12: on both list routes the answer to a staff caller holds only orders
\* whose managerId is the caller's id and the answer to a shipper caller
\* only orders whose shipperId is the caller's id, whatever q, status, from
\* and to are; for any other role no order is held back: the paginated list
\* counts all orders the filters select and answers the requested page of
\* them (all of them when they fit on the first page), and the unpaginated
\* list answers every order of the collection.
Range(seq) == {seq[k] : k \in DOMAIN seq}

\* what the q, status, from and to parameters of a list request select
MatchesFilters(o, qr) ==
  /\ qr.q # <<>> =>
       \/ RegexTest(qr.q, Text(o.code))
       \/ RegexTest(qr.q, Text(o.phone))
       \/ RegexTest(qr.q, Text(o.fullName))
  /\ qr.status \notin {"", "all"} => o.status = qr.status
  /\ qr.from # 0 => o.createdAt >= FormDay(qr.from)
  /\ qr.to # 0 => o.createdAt <= ToDay(qr.to)

Stored == {store[i] : i \in {j \in OrderIds : store[j] # NULL}}

C12_ListsScopedByRole ==
  \A r \in Reqs :
    pc[r] = "done" /\ req[r].op \in {"List", "All"} =>
      LET qr == query[r]
          docs == res[r].body.docs
          selected == {o \in Stored : MatchesFilters(o, qr)}
      IN /\ IsSuccess(res[r])
         /\ Range(docs) \subseteq Stored
         /\ qr.user.role = "staff" =>
              \A o \in Range(docs) : o.managerId = qr.user.id
         /\ qr.user.role = "shipper" =>
              \A o \in Range(docs) : o.shipperId = qr.user.id
         /\ qr.user.role \notin {"staff", "shipper"} /\ req[r].op = "All" =>
              Range(docs) = Stored /\ Len(docs) = Cardinality(Stored)
         /\ qr.user.role \notin {"staff", "shipper"} /\ req[r].op = "List" =>
              /\ res[r].body.totalDocs = Cardinality(selected)
              /\ Range(docs) \subseteq selected
              /\ Cardinality(Range(docs)) = Len(docs)
              /\ LET before == (qr.page - 1) * qr.limit
                     left == Cardinality(selected) - before
                 IN Len(docs) = IF left <= 0 THEN 0 ELSE Min(qr.limit, left)
              /\ qr.page = 1 /\ qr.limit >= Cardinality(selected) =>
                   Range(docs) = selected

\* a staff caller has listed a collection that holds an order which passes
\* the filters and is managed by somebody else: the order is not in the answer
C12_Witness ==
  \E r \in Reqs, i \in OrderIds :
    /\ pc[r] = "done" /\ req[r].op = "List"
    /\ query[r].user.role = "staff"
    /\ query[r].q # <<>> /\ query[r].status = "Pending" /\ query[r].from # 0
    /\ store[i] # NULL
    /\ MatchesFilters(store[i], query[r])
    /\ store[i].managerId # query[r].user.id
    /\ store[i] \notin Range(res[r].body.docs)

\* ------------------------------------------------------------------ C13
\* the step of r hands a message to the mail relay
InvokesRelay(r) == mail[r] = NULL /\ mail'[r] # NULL

\* the step of r is a "data" event of its invoice stream
EmitsChunk(r) == Len(doc'[r]) < Len(doc[r])

\* C13: in the send-email flow the stream starts as the rendered invoice with
\* nothing collected; every chunk the stream emits is appended, in order, to
\* the collected chunks; the relay is invoked only when the stream has
\* nothing left to emit, and the attachment it is handed is the concatenation
\* of the collected chunks, as long as the rendered invoice.
C13_AttachmentIsWholeStream ==
  [][\A r \in Reqs :
       /\ Starts(r, "SendEmail") /\ pc'[r] = "stream" =>
            /\ doc'[r] = generateInvoice(order'[r]).text
            /\ buffers'[r] = <<>>
            /\ mail'[r] = NULL
       /\ req[r].op = "SendEmail" /\ ~Ready(r) /\ EmitsChunk(r) =>
            /\ Len(buffers'[r]) = Len(buffers[r]) + 1
            /\ SubSeq(buffers'[r], 1, Len(buffers[r])) = buffers[r]
            /\ buffers'[r][Len(buffers'[r])] \o doc'[r] = doc[r]
            /\ Concat(buffers'[r]) \o doc'[r] =
                 generateInvoice(order[r]).text
            /\ mail'[r] = NULL
       /\ InvokesRelay(r) =>
            /\ req[r].op = "SendEmail" /\ pc[r] = "stream"
            /\ doc[r] = <<>>
            /\ mail'[r].content = Concat(buffers[r])
            /\ mail'[r].content = generateInvoice(order[r]).text
            /\ Len(mail'[r].content) = Len(generateInvoice(order[r]).text)
     ]_vars

\* the relay holds an attachment that the stream emitted in several chunks
C13_Witness ==
  \E r \in Reqs :
    /\ pc[r] = "mail" /\ req[r].op = "SendEmail"
    /\ Len(buffers[r]) >= 2
    /\ doc[r] = <<>>
    /\ mail[r].content = Concat(buffers[r])
    /\ Len(mail[r].content) > MaxChunk

\* ------------------------------------------------------------------ C14
\* the block the claim wants for one item
RECURSIVE ExpectedBlocks(_)
ExpectedBlocks(items) ==
  IF items = <<>> THEN <<>>
  ELSE LET item == Head(items)
       IN <<<<"Product", item.productId.name>>,
            <<"Variant", item.productVariantId.name>>,
            <<"Quantity", ToString(item.quantity)>>,
            <<"Price", ToString(item.productVariantId.price)>>,
            <<"Total",
              ToString(item.quantity * item.productVariantId.price)>>>>
          \o ExpectedBlocks(Tail(items))

\* the fields the claim wants, in its order, each under its own label
ExpectedFields(o) ==
  <<<<"Order code", o.code>>,
    <<"Customer", o.fullName>>,
    <<"Phone", o.phone>>,
    <<"Address", o.address>>,
    <<"Email", o.email>>,
    <<"Payment method", o.typePayment>>,
    <<"Payment status", o.paymentStatus>>,
    <<"Delivery status", o.deliveryStatus>>,
    <<"Status", o.status>>,
    <<"Created at", ToString(o.createdAt)>>,
    <<"Updated at", ToString(o.updatedAt)>>,
    <<"Total", ToString(o.orderTotalPrice)>>>>

\* the lines of a document that carry a value
RECURSIVE Valued(_)
Valued(lines) ==
  IF lines = <<>> THEN <<>>
  ELSE IF Head(lines)[2] = "" THEN Valued(Tail(lines))
  ELSE <<Head(lines)>> \o Valued(Tail(lines))

\* C14: the document served for an order carries, in the fixed order, the
\* order code, the customer fields, the payment method, the order's
\* paymentStatus under the payment-status label, deliveryStatus, status,
\* createdAt, updatedAt and total, then one block per item in item order,
\* each value being the field of the order.
C14_InvoiceEmitsOrderFields ==
  \A r \in Reqs :
    /\ pc[r] = "done" /\ req[r].op = "Invoice"
    /\ res[r].kind = "pdf"
    /\ Present(req[r].id)
    => Valued(res[r].body.doc) =
         ExpectedFields(store[req[r].id]) \o
         ExpectedBlocks(store[req[r].id].items)

\* ------------------------------------------------------------------ C15
RECURSIVE SumOfLineTotals(_)
SumOfLineTotals(items) ==
  IF items = <<>> THEN 0
  ELSE Head(items).quantity * Head(items).productVariantId.price +
       SumOfLineTotals(Tail(items))

\* the lines of a document under a label, in document order
RECURSIVE Labelled(_, _)
Labelled(lines, label) ==
  IF lines = <<>> THEN <<>>
  ELSE IF Head(lines)[1] = label
    THEN <<Head(lines)[2]>> \o Labelled(Tail(lines), label)
  ELSE Labelled(Tail(lines), label)

\* C15: on every invoice served, the line total printed for each item is its
\* quantity times its unit price, and the order total printed (the first
\* Total line) is the sum of the line totals printed.
C15_TotalsAddUp ==
  \A r \in Reqs :
    /\ pc[r] = "done" /\ req[r].op = "Invoice"
    /\ res[r].kind = "pdf"
    /\ Present(req[r].id)
    => LET items == store[req[r].id].items
           totals == Labelled(res[r].body.doc, "Total")
       IN /\ Len(totals) = Len(items) + 1
          /\ \A k \in DOMAIN items :
               totals[k + 1] =
                 ToString(items[k].quantity * items[k].productVariantId.price)
          /\ totals[1] = ToString(SumOfLineTotals(items))

\* ------------------------------------------------------------------ C16
\* a reference of the order did not resolve, so rendering it throws
Unrenderable(o) ==
  o = NULL \/
  \E k \in DOMAIN o.items :
    o.items[k].productId = NULL \/ o.items[k].productVariantId = NULL

\* some bytes of a document have reached the consumer
SentDocumentBytes(response) ==
  response.kind = "pdf" /\ response.body.doc # <<>>

\* C16: a GET invoice request that has finished left either a document on
\* which the end of the stream was written, or a JSON error and no byte of a
\* document; while it runs, and after it, bytes of a document are visible
\* only if rendering the order did not fail, and then they are the leading
\* part of the whole document.
C16_DocumentEndedOrJsonError ==
  \A r \in Reqs :
    req[r].op = "Invoice" =>
      LET o == store[req[r].id]
      IN /\ pc[r] = "done" =>
              \/ /\ res[r].kind = "pdf" /\ res[r].status = 200
                 /\ res[r].body.ended
                 /\ ~Unrenderable(o)
              \/ /\ res[r].kind = "json" /\ IsError(res[r])
                 /\ Unrenderable(o)
         /\ SentDocumentBytes(res[r]) =>
              /\ ~Unrenderable(o)
              /\ res[r].body.doc \o doc[r] = generateInvoice(o).text
         /\ res[r].kind = "pdf" /\ res[r].body.ended =>
              pc[r] = "done" /\ res[r].body.doc = generateInvoice(o).text

\* rendering failed after the first item's block had been written into the
\* document: the consumer got a JSON error
C16_Witness ==
  \E r \in Reqs :
    /\ pc[r] = "done" /\ req[r].op = "Invoice"
    /\ Present(req[r].id)
    /\ Len(store[req[r].id].items) = 2
    /\ store[req[r].id].items[1].productVariantId # NULL
    /\ store[req[r].id].items[1].productId # NULL
    /\ store[req[r].id].items[2].productVariantId = NULL
    /\ res[r].kind = "json" /\ res[r].status = 500

\* ------------------------------------------------------------------ C17
RelayFailed(response) ==
  \E error \in TransportErrors :
    response = JsonMessage(500, ToJson(error))

RelayAccepted(response) ==
  response = JsonMessage(200, "Email sent successfully.")

\* C17: a send-email request hands a message to the relay at most once: only
\* on the step that ends its stream, never while the relay already holds its
\* message, which it holds until the callback; the request has no response
\* while it runs and gets its one response on the step that finishes it: the
\* transport error when the relay failed, the success message when the relay
\* accepted, and in both cases nothing is handed to the relay again.
C17_OneAttemptOneResponse ==
  [][\A r \in Reqs :
       (req[r].op = "SendEmail" \/ req'[r].op = "SendEmail") =>
         /\ InvokesRelay(r) =>
              /\ pc[r] = "stream" /\ pc'[r] = "mail"
              /\ mail'[r].calls = 1
         /\ mail[r] # NULL /\ Acted(r) =>
              /\ pc[r] = "mail"
              /\ mail'[r] = NULL
              /\ pc'[r] = "done"
              /\ RelayFailed(res'[r]) \/ RelayAccepted(res'[r])
         /\ pc[r] = "mail" => mail[r] # NULL
         /\ ~Ready(r) /\ req[r].op = "SendEmail" => res[r] = NoRes
         /\ pc'[r] = "done" /\ req'[r].op = "SendEmail" =>
              /\ res'[r] # NoRes
              /\ mail'[r] = NULL
         /\ pc[r] = "done" /\ req[r].op = "SendEmail" /\ Acted(r) =>
              Starts(r, req'[r].op)
     ]_vars

\* the relay failed: the request finished with the transport error, and the
\* relay holds nothing
C17_Witness ==
  \E r \in Reqs :
    /\ pc[r] = "done" /\ req[r].op = "SendEmail"
    /\ RelayFailed(res[r])
    /\ mail[r] = NULL

\* ------------------------------------------------------------------ C18
\* C18: an AssignShipper request on an existing order, whatever its status,
\* finishes at once with a success response, sets the order's shipperId to
\* the given shipper, and leaves its status, paymentStatus and deliveryStatus
\* (and every other field, and every other order) as they were.
C18_AssignShipperUnconditional ==
  [][\A r \in Reqs :
       Starts(r, "AssignShipper") /\ Present(req'[r].id) =>
         LET id == req'[r].id
         IN /\ pc'[r] = "done"
            /\ IsSuccess(res'[r])
            /\ store'[id] # NULL
            /\ store'[id].shipperId = req'[r].arg
            /\ store'[id].status = store[id].status
            /\ store'[id].paymentStatus = store[id].paymentStatus
            /\ store'[id].deliveryStatus = store[id].deliveryStatus
            /\ store' = [store EXCEPT ![id].shipperId = req'[r].arg]
     ]_vars

\* a shipper has been assigned to an order that is canceled
C18_Witness ==
  \E r \in Reqs :
    /\ pc[r] = "done" /\ req[r].op = "AssignShipper"
    /\ IsSuccess(res[r])
    /\ res[r].body # NULL
    /\ AllCanceled(res[r].body)
    /\ res[r].body.shipperId = NoShipper
    /\ store[req[r].id] = [res[r].body EXCEPT !.shipperId = req[r].arg]

\* ------------------------------------------------------------------ C19
\* C19: no step of any request makes an order present under an id that has
\* none: once an order is deleted its id stays empty, also when a Pay,
\* SetDeliveryStatus, Cancel or AssignShipper request that read the order
\* before the delete writes after it.
C19_DeletedStaysDeleted ==
  [][\A i \in OrderIds : store[i] = NULL => store'[i] = NULL]_vars

\* a Pay request got past its guard on the order it read, and its update
\* found no document: the order was deleted in between, and it is still gone
C19_Witness ==
  \E r, d \in Reqs :
    /\ pc[r] = "done" /\ req[r].op = "Pay"
    /\ res[r] = Json(200, NULL)
    /\ pc[d] = "done" /\ req[d].op = "Delete" /\ req[d].id = req[r].id
    /\ res[d].body # NULL
    /\ store[req[r].id] = NULL

\* ------------------------------------------------------------------ C20
\* C20: when a Pay request and a SetDeliveryStatus(Shipped) request on the
\* same Pending order have both finished with success, each having found the
\* order Pending and not yet paid (Pay) or not yet shipped
\* (SetDeliveryStatus), and the stored order carries both their writes, the
\* stored order has status = Completed.
C20_ConcurrentPayAndShipComplete ==
  \A p, s \in Reqs :
    /\ p # s
    /\ pc[p] = "done" /\ req[p].op = "Pay"
    /\ pc[s] = "done" /\ req[s].op = "SetDeliveryStatus"
    /\ req[s].arg = "Shipped"
    /\ req[s].id = req[p].id
    /\ IsSuccess(res[p]) /\ res[p].body # NULL
    /\ IsSuccess(res[s]) /\ res[s].body # NULL
    /\ res[p].body.status = "Pending" /\ res[p].body.paymentStatus = "Pending"
    /\ res[s].body.status = "Pending" /\ res[s].body.deliveryStatus = "Pending"
    /\ Present(req[p].id)
    /\ store[req[p].id].paymentStatus = "Paid"
    /\ store[req[p].id].deliveryStatus = "Shipped"
    => store[req[p].id].status = "Completed"

\* ------------------------------------------------------------------ C21
\* C21: every response to a statistic request satisfies
\* totalCanceled + totalCompleted <= total, whatever Cancel, Pay,
\* SetDeliveryStatus and Delete requests ran between its three counts.
C21_CountsWithinTotal ==
  \A r \in Reqs :
    pc[r] = "done" /\ req[r].op = "Statistic" /\ IsSuccess(res[r])
      => res[r].body.totalCanceled + res[r].body.totalCompleted <=
           res[r].body.total

====
